---------------------------- MODULE Spec2Model ----------------------------
(***************************************************************************)
(* Model of backend/main.py: a Flask service that recommends songs by a    *)
(* requested mood or by the mood a classifier predicts for a given song.   *)
(*                                                                         *)
(* Strings are sequences of characters over a small alphabet (a blank, and *)
(* two letters in both cases); Python's str.strip / lower / capitalize are *)
(* computed character by character.  The classifier and the label encoder  *)
(* are opaque artifacts: a table from feature vectors to an encoded label   *)
(* (or a raised exception) and a list of classes.  DataFrame.sample with a  *)
(* fixed random_state is an opaque deterministic choice of rows; the model  *)
(* lets it return any set of `count` distinct rows of the frame, and leaves *)
(* the order of the sampled rows out.  random.randint is unseeded: any      *)
(* value of its range may be drawn.                                        *)
(*                                                                         *)
(* Spec handles one request at a time over many datasets; ConcSpec lets    *)
(* several workers interleave at every handler step over a few datasets;   *)
(* NormSpec applies the three mood normalizers to arbitrary short strings. *)
(***************************************************************************)
EXTENDS Integers, Sequences, FiniteSets, TLC

VARIABLES
    csv,              \* the rows of enhanced_song_dataset.csv as read (line 34)
    df,               \* the global DataFrame after preprocessing (lines 34-43)
    available_moods,  \* the global sorted list of moods (line 54)
    model,            \* the loaded classifier (line 32)
    le,               \* the loaded label encoder (line 33)
    reqs,             \* per worker thread: the request in progress, its locals, its response
    nIn, nOut, nSite, nTimes  \* the normalizer applied on its own: input, output, site, applications

vars == <<csv, df, available_moods, model, le, reqs, nIn, nOut, nSite, nTimes>>

shared == <<df, available_moods, model, le>>

(*************************** bounds of the model ***************************)
MaxLen == 3      \* longest string handed to the normalizer on its own
MaxApply == 2    \* how often the normalizer is re-applied to its own output
MaxHead == 2     \* rows of an arbitrary small dataset
MaxFill == 9     \* identical rows appended to a probe row in a bulk dataset
MaxConc == 2     \* worker threads handling requests concurrently

(***************************** Python strings ******************************)
Chars == {" ", "a", "A", "n", "N"}

IsSpace(c) == c = " "

LowerChar(c) == CASE c = "A" -> "a" [] c = "N" -> "n" [] OTHER -> c

UpperChar(c) == CASE c = "a" -> "A" [] c = "n" -> "N" [] OTHER -> c

Ord(c) == CASE c = " " -> 32 [] c = "A" -> 65 [] c = "N" -> 78
            [] c = "a" -> 97 [] c = "n" -> 110

SetMin(S) == CHOOSE x \in S : \A y \in S : x <= y

SetMax(S) == CHOOSE x \in S : \A y \in S : y <= x

\* mutant of str_strip: only the leading whitespace is dropped
str_lstrip(s) ==
    LET keep == {i \in 1..Len(s) : ~IsSpace(s[i])}
    IN  IF keep = {} THEN <<>> ELSE SubSeq(s, SetMin(keep), Len(s))

\* str.strip(): drop leading and trailing whitespace
str_strip(s) ==
    LET keep == {i \in 1..Len(s) : ~IsSpace(s[i])}
    IN  IF keep = {} THEN <<>> ELSE SubSeq(s, SetMin(keep), SetMax(keep))

\* str.lower()
str_lower(s) == [i \in 1..Len(s) |-> LowerChar(s[i])]

\* str.capitalize(): first character upper-cased, every other one lower-cased
str_capitalize(s) ==
    [i \in 1..Len(s) |-> IF i = 1 THEN UpperChar(s[i]) ELSE LowerChar(s[i])]

\* Python's < on str: lexicographic by code point
RECURSIVE StrLess(_, _)
StrLess(a, b) ==
    IF b = <<>> THEN FALSE
    ELSE IF a = <<>> THEN TRUE
    ELSE IF a[1] # b[1] THEN Ord(a[1]) < Ord(b[1])
    ELSE StrLess(Tail(a), Tail(b))

\* sorted(...) of a set of distinct strings
RECURSIVE sorted(_)
sorted(S) ==
    IF S = {} THEN <<>>
    ELSE LET m == CHOOSE x \in S : \A y \in S \ {x} : StrLess(x, y)
         IN  <<m>> \o sorted(S \ {m})

(************************* the dataset (lines 34-54) ***********************)
\* a cell of the csv's mood column: a string, or NaN for a missing value
NaN == [isna |-> TRUE, s |-> <<>>]

StrCell(s) == [isna |-> FALSE, s |-> s]

\* Series.astype(str): NaN becomes the string "nan"
astype_str(cell) == IF cell.isna THEN <<"n", "a", "n">> ELSE cell.s

\* lines 45-52
features == <<"valence", "danceability", "energy", "tempo", "acousticness", "liveness">>

MkRow(name, mood, v) ==
    [song_name |-> name, mood |-> mood, valence |-> v, danceability |-> v,
     energy |-> v, tempo |-> v, acousticness |-> v, liveness |-> v]

\* rows a csv may hold: names that differ in case or in surrounding blanks,
\* moods that differ in case or blanks, a blank mood, a missing mood
CsvRows ==
    { MkRow(<<"a">>,      StrCell(<<"a">>),      0),
      MkRow(<<"A">>,      StrCell(<<" ", "A">>), 1),
      MkRow(<<"a", " ">>, StrCell(<<"A", " ">>), 0),
      MkRow(<<"n">>,      StrCell(<<"a">>),      1),
      MkRow(<<"n">>,      NaN,                   0),
      MkRow(<<"a">>,      NaN,                   1),
      MkRow(<<"n">>,      StrCell(<<" ">>),      0) }

FillRow == MkRow(<<"n">>, StrCell(<<"a">>), 1)

SeqsUpTo(S, n) == UNION {[1..k -> S] : k \in 0..n}

SmallDatasets == SeqsUpTo(CsvRows, MaxHead)

\* a probe row followed by many identical rows: pools larger than the sample
BulkProbes ==
    { MkRow(<<"a">>, StrCell(<<"a">>), 0),
      MkRow(<<"A">>, StrCell(<<" ", "A">>), 1),
      MkRow(<<"a">>, NaN, 1) }

BulkDatasets ==
    {<<probe>> \o [i \in 1..t |-> FillRow] : probe \in BulkProbes, t \in 1..MaxFill}

\* lines 37-43: df["mood"].astype(str).str.strip().str.lower().str.capitalize()
NormalizeMoodColumn(cell) == str_capitalize(str_lower(str_strip(astype_str(cell))))

Preprocess(rows) ==
    [i \in 1..Len(rows) |-> [rows[i] EXCEPT !.mood = NormalizeMoodColumn(@)]]

\* mutant of ComputeAvailableMoods: the moods in order of first appearance, unsorted
RECURSIVE MoodsAt(_, _)
MoodsAt(frame, idx) ==
    IF idx = {} THEN <<>>
    ELSE <<frame[SetMin(idx)].mood>> \o MoodsAt(frame, idx \ {SetMin(idx)})

ComputeAvailableMoodsUnsorted(frame) ==
    MoodsAt(frame, {i \in 1..Len(frame) : \A j \in 1..(i - 1) : frame[j].mood # frame[i].mood})

\* mutant of ComputeAvailableMoods: a mood no row has is listed as well
ComputeAvailableMoodsExtra(frame) ==
    sorted({frame[i].mood : i \in 1..Len(frame)} \cup {<<"N">>})

\* line 54: sorted(df["mood"].dropna().unique().tolist()); no value of the
\* column is NaN after astype(str), so dropna() drops nothing
ComputeAvailableMoods(frame) == sorted({frame[i].mood : i \in 1..Len(frame)})

InList(x, list) == \E i \in 1..Len(list) : list[i] = x

(******************* classifier and label encoder (32-33) ******************)
FeatVecs == {[i \in 1..6 |-> v] : v \in 0..1}

Raised == [raised |-> TRUE, code |-> 0]

Predicted(c) == [raised |-> FALSE, code |-> c]

\* model.predict(input_df)[0]: an encoded label, or an exception
Predictions == {Raised} \cup {Predicted(c) : c \in 0..2}

Models ==
    { [f \in FeatVecs |-> IF f[1] = 0 THEN a ELSE b] :
        a \in Predictions, b \in {Raised, Predicted(1)} }

\* le.classes_: code 2 is a label the encoder has never seen
BulkModels == {[f \in FeatVecs |-> Predicted(0)], [f \in FeatVecs |-> Predicted(f[1])]}

LabelEncoders == { << <<" ", "a">>, <<"N", "A", "N">> >> }

\* mutant of inverse_transform: an unseen label decodes to "" instead of raising
inverse_transform_lenient(enc, code) ==
    [raised |-> FALSE, label |-> IF code + 1 \in 1..Len(enc) THEN enc[code + 1] ELSE <<>>]

\* le.inverse_transform([code])[0]: raises ValueError on an unseen label
inverse_transform(enc, code) ==
    IF code + 1 \in 1..Len(enc)
    THEN [raised |-> FALSE, label |-> enc[code + 1]]
    ELSE [raised |-> TRUE, label |-> <<>>]

(***************************** request bodies ******************************)
\* a JSON value found under the "mood" / "song" key
JVal(t, s) == [t |-> t, s |-> s]

\* what request.get_json(silent=True) returns: None (no body, not JSON), a
\* JSON value that is not an object, or an object, which may hold the
\* endpoint's key (has) with value fv
Absent == [t |-> "none", truthy |-> FALSE, has |-> FALSE, fv |-> JVal("null", <<>>)]

TopValue(t, truthy) == [t |-> t, truthy |-> truthy, has |-> FALSE, fv |-> JVal("null", <<>>)]

Object(has, fv) == [t |-> "object", truthy |-> has, has |-> has, fv |-> fv]

EmptyObject == Object(FALSE, JVal("null", <<>>))

Queries ==
    { <<>>, <<" ">>, <<"a">>, <<"A">>, <<" ", "A">>, <<"a", " ">>, <<"n">>,
      <<"N", "A", "N">> }

FieldValues == {JVal("null", <<>>), JVal("number", <<>>)} \cup {JVal("string", q) : q \in Queries}

Bodies ==
    {Absent, TopValue("number", FALSE), TopValue("number", TRUE), TopValue("array", TRUE),
     EmptyObject}
    \cup {Object(TRUE, v) : v \in FieldValues}

\* request.get_json(silent=True) or {}
get_json_or_empty(body) ==
    IF body.t = "object" \/ body.truthy THEN body ELSE EmptyObject

\* data.get(key, "").strip(): AttributeError when data is no dict or the
\* value under the key is no str
IsDict(data) == data.t = "object"

dict_get(data) == IF data.has THEN data.fv ELSE JVal("string", <<>>)

IsStr(v) == v.t = "string"

(******************************* responses *********************************)
BaseResp(ep, body) ==
    [ep |-> ep, body |-> body, status |-> 200, json |-> TRUE, error |-> "", arg |-> <<>>,
     mood |-> <<>>, song_input |-> <<>>, predicted_mood |-> <<>>, rows |-> {},
     moods |-> <<>>]

NoResp == [BaseResp("none", Absent) EXCEPT !.status = 0]

\* jsonify({"error": ...}), status
ErrorResp(ep, body, status, text, arg) ==
    [BaseResp(ep, body) EXCEPT !.status = status, !.error = text, !.arg = arg]

\* an exception that leaves the view function: Flask answers 500 with its
\* own HTML error page
Unhandled(ep, body, exc) ==
    [BaseResp(ep, body) EXCEPT !.status = 500, !.json = FALSE, !.error = exc]

\* line 78 / 122: random.randint(5, 8)
RandLo == 5
RandHi == 8

randint(a, b) == a..b

Min(a, b) == IF a <= b THEN a ELSE b

\* mutant of SampleCount: the count is not capped by the pool size
SampleCountUncapped(k, n) == k

\* line 78 / 122: min(random.randint(5, 8), len(pool))
SampleCount(k, n) == Min(k, n)

\* DataFrame.sample(count, random_state=42): count distinct rows of the frame;
\* ValueError when count exceeds the number of rows
sample(pool, count) ==
    IF count > Cardinality(pool)
    THEN {[raised |-> TRUE, rows |-> {}]}
    ELSE {[raised |-> FALSE, rows |-> S] : S \in {T \in SUBSET pool : Cardinality(T) = count}}

(************* POST /api/recommend/mood (lines 62-84), by step *************)
\* mutant of NormalizeQuery: the mood is capitalized but not stripped
NormalizeQueryNoStrip(s) == str_capitalize(s)

\* line 65: .strip().capitalize() of the mood in the body
NormalizeQuery(s) == str_capitalize(str_strip(s))

\* lines 64-71: parse the body, normalize and validate the mood
mood_parse(avail, body) ==
    LET data == get_json_or_empty(body)
        stop(r) == [done |-> TRUE, resp |-> r, mood_input |-> <<>>]
    IN  IF ~IsDict(data) THEN stop(Unhandled("mood", body, "AttributeError"))
        ELSE IF ~IsStr(dict_get(data)) THEN stop(Unhandled("mood", body, "AttributeError"))
        ELSE LET mood_input == NormalizeQuery(dict_get(data).s)
             IN  IF mood_input = <<>>
                 THEN stop(ErrorResp("mood", body, 400, "Mood is required.", <<>>))
                 ELSE IF ~InList(mood_input, avail)
                 THEN stop(ErrorResp("mood", body, 404, "Mood '%s' not found.", mood_input))
                 ELSE [done |-> FALSE, resp |-> NoResp, mood_input |-> mood_input]

\* mutant of filter_by_mood: the frame is not filtered
filter_by_mood_all(frame, mood_input) == 1..Len(frame)

\* mutant of df_after_indexing: the filter is applied to the global frame in place
RECURSIVE RowsAt(_, _)
RowsAt(frame, idx) ==
    IF idx = {} THEN <<>>
    ELSE <<frame[SetMin(idx)]>> \o RowsAt(frame, idx \ {SetMin(idx)})

df_after_indexing_inplace(frame, kept) == RowsAt(frame, kept)

\* lines 73, 112: df[mask] builds a new frame bound to a local name; the
\* global df is neither rebound nor changed in place
df_after_indexing(frame, kept) == frame

\* line 73: df[df["mood"] == mood_input], as the set of row positions
filter_by_mood(frame, mood_input) == {i \in 1..Len(frame) : frame[i].mood = mood_input}

\* lines 73-84: filter, draw the count, sample, answer
mood_sample(frame, body, mood_input) ==
    LET filtered_songs == filter_by_mood(frame, mood_input)
    IN  IF filtered_songs = {}
        THEN {ErrorResp("mood", body, 404, "No songs found for mood '%s'.", mood_input)}
        ELSE { IF smp.raised
               THEN Unhandled("mood", body, "ValueError")
               ELSE [BaseResp("mood", body) EXCEPT !.mood = mood_input, !.rows = smp.rows] :
               smp \in UNION { sample(filtered_songs, SampleCount(k, Cardinality(filtered_songs))) :
                               k \in randint(RandLo, RandHi) } }

(************* POST /api/recommend/song (lines 87-129), by step ************)
\* mutant of NormalizeLabel: the label is capitalized but not stripped
NormalizeLabelNoStrip(s) == str_capitalize(s)

\* lines 104-108: .strip().capitalize() of the decoded label
NormalizeLabel(s) == str_capitalize(str_strip(s))

\* line 95: df[df["song_name"].str.lower() == song_input.lower()]
find_song(frame, song_input) ==
    {i \in 1..Len(frame) : str_lower(frame[i].song_name) = str_lower(song_input)}

\* lines 89-97: parse the body, strip the name, look the song up
song_parse(frame, body) ==
    LET data == get_json_or_empty(body)
        stop(r) == [done |-> TRUE, resp |-> r, song_input |-> <<>>, song_row |-> {}]
    IN  IF ~IsDict(data) THEN stop(Unhandled("song", body, "AttributeError"))
        ELSE IF ~IsStr(dict_get(data)) THEN stop(Unhandled("song", body, "AttributeError"))
        ELSE LET song_input == str_strip(dict_get(data).s)
                 song_row == find_song(frame, song_input)
             IN  IF song_input = <<>>
                 THEN stop(ErrorResp("song", body, 400, "Song name is required.", <<>>))
                 ELSE IF song_row = {}
                 THEN stop(ErrorResp("song", body, 404, "Song '%s' not found.", song_input))
                 ELSE [done |-> FALSE, resp |-> NoResp, song_input |-> song_input,
                       song_row |-> song_row]

\* lines 100-101: the features of the first matching row, in the order of `features`
input_df(frame, song_row) == [i \in 1..Len(features) |-> frame[SetMin(song_row)][features[i]]]

\* lines 99-110: predict, decode, normalize the label; any exception is a 500
song_predict(frame, mdl, enc, body, song_row) ==
    LET stop(r) == [done |-> TRUE, resp |-> r, predicted_mood |-> <<>>]
        predicted == mdl[input_df(frame, song_row)]
        decoded == inverse_transform(enc, predicted.code)
    IN  IF predicted.raised
        THEN stop(ErrorResp("song", body, 500, "Prediction failed: %s", <<>>))
        ELSE IF decoded.raised
        THEN stop(ErrorResp("song", body, 500, "Prediction failed: %s", <<>>))
        ELSE [done |-> FALSE, resp |-> NoResp,
              predicted_mood |-> NormalizeLabel(decoded.label)]

\* lines 112-115: rows of the predicted mood whose name differs from the input
filter_recommendations(frame, predicted_mood, song_input) ==
    {i \in 1..Len(frame) :
        /\ frame[i].mood = predicted_mood
        /\ str_lower(frame[i].song_name) # str_lower(song_input)}

\* lines 112-129: filter, draw the count, sample, answer
song_sample(frame, body, song_input, predicted_mood) ==
    LET mood_songs == filter_recommendations(frame, predicted_mood, song_input)
    IN  IF mood_songs = {}
        THEN {ErrorResp("song", body, 404, "No recommendations found for mood '%s'.",
                        predicted_mood)}
        ELSE { IF smp.raised
               THEN Unhandled("song", body, "ValueError")
               ELSE [BaseResp("song", body) EXCEPT !.song_input = song_input,
                        !.predicted_mood = predicted_mood, !.rows = smp.rows] :
               smp \in UNION { sample(mood_songs, SampleCount(k, Cardinality(mood_songs))) :
                               k \in randint(RandLo, RandHi) } }

(***************************** the state machine ***************************)
\* pc: idle, start (request received), the handler's next step, done (answered)
IdleReq ==
    [pc |-> "idle", ep |-> "none", body |-> Absent, mood_input |-> <<>>,
     song_input |-> <<>>, song_row |-> {}, predicted_mood |-> <<>>, resp |-> NoResp]

Threads == 1..MaxConc

NormIdle == nIn = <<>> /\ nOut = <<>> /\ nSite = "none" /\ nTimes = 0

\* module import (lines 32-54): load the artifacts, preprocess, list the moods
Startup(artifacts) ==
    /\ \E a \in artifacts : csv = a[1] /\ model = a[2]
    /\ df = Preprocess(csv)
    /\ available_moods = ComputeAvailableMoods(df)
    /\ le \in LabelEncoders
    /\ reqs = [r \in Threads |-> IdleReq]
    /\ NormIdle

Init == Startup((SmallDatasets \X Models) \cup (BulkDatasets \X BulkModels))

\* the view function returns: the worker holds the response it sent
Finish(r, rsp) == reqs' = [reqs EXCEPT ![r] = [IdleReq EXCEPT !.pc = "done", !.resp = rsp]]

\* a request reaches worker r
Receive(r, bodies) ==
    /\ reqs[r].pc = "idle"
    /\ \E ep \in {"home", "moods", "mood", "song"} :
         \E body \in (IF ep \in {"mood", "song"} THEN bodies ELSE {Absent}) :
            reqs' = [reqs EXCEPT ![r] = [IdleReq EXCEPT !.pc = "start", !.ep = ep,
                                                          !.body = body]]
    /\ UNCHANGED <<csv, shared, nIn, nOut, nSite, nTimes>>

\* GET / (lines 13-23)
home(r) ==
    /\ reqs[r].pc = "start" /\ reqs[r].ep = "home"
    /\ Finish(r, BaseResp("home", reqs[r].body))
    /\ UNCHANGED <<csv, shared, nIn, nOut, nSite, nTimes>>

\* GET /api/moods (lines 57-59)
get_available_moods(r) ==
    /\ reqs[r].pc = "start" /\ reqs[r].ep = "moods"
    /\ Finish(r, [BaseResp("moods", reqs[r].body) EXCEPT !.moods = available_moods])
    /\ UNCHANGED <<csv, shared, nIn, nOut, nSite, nTimes>>

\* recommend_songs_by_mood, lines 64-71
recommend_songs_by_mood_validate(r) ==
    /\ reqs[r].pc = "start" /\ reqs[r].ep = "mood"
    /\ LET res == mood_parse(available_moods, reqs[r].body)
       IN  IF res.done
           THEN Finish(r, res.resp)
           ELSE reqs' = [reqs EXCEPT ![r].pc = "sample", ![r].mood_input = res.mood_input]
    /\ UNCHANGED <<csv, shared, nIn, nOut, nSite, nTimes>>

\* recommend_songs_by_mood, lines 73-84
recommend_songs_by_mood_sample(r) ==
    /\ reqs[r].pc = "sample" /\ reqs[r].ep = "mood"
    /\ \E rsp \in mood_sample(df, reqs[r].body, reqs[r].mood_input) : Finish(r, rsp)
    /\ df' = df_after_indexing(df, filter_by_mood(df, reqs[r].mood_input))
    /\ UNCHANGED <<csv, available_moods, model, le, nIn, nOut, nSite, nTimes>>

\* recommend_songs_by_song, lines 89-97
recommend_songs_by_song_lookup(r) ==
    /\ reqs[r].pc = "start" /\ reqs[r].ep = "song"
    /\ LET res == song_parse(df, reqs[r].body)
       IN  IF res.done
           THEN Finish(r, res.resp)
           ELSE reqs' = [reqs EXCEPT ![r].pc = "predict",
                                     ![r].song_input = res.song_input,
                                     ![r].song_row = res.song_row]
    /\ UNCHANGED <<csv, shared, nIn, nOut, nSite, nTimes>>

\* recommend_songs_by_song, lines 99-110
recommend_songs_by_song_predict(r) ==
    /\ reqs[r].pc = "predict" /\ reqs[r].ep = "song"
    /\ LET res == song_predict(df, model, le, reqs[r].body, reqs[r].song_row)
       IN  IF res.done
           THEN Finish(r, res.resp)
           ELSE reqs' = [reqs EXCEPT ![r].pc = "sample",
                                     ![r].predicted_mood = res.predicted_mood]
    /\ UNCHANGED <<csv, shared, nIn, nOut, nSite, nTimes>>

\* recommend_songs_by_song, lines 112-129
recommend_songs_by_song_sample(r) ==
    /\ reqs[r].pc = "sample" /\ reqs[r].ep = "song"
    /\ \E rsp \in song_sample(df, reqs[r].body, reqs[r].song_input, reqs[r].predicted_mood) :
          Finish(r, rsp)
    /\ df' = df_after_indexing(df, filter_recommendations(df, reqs[r].predicted_mood,
                                                           reqs[r].song_input))
    /\ UNCHANGED <<csv, available_moods, model, le, nIn, nOut, nSite, nTimes>>

\* the worker is free for the next request
Release(r) ==
    /\ reqs[r].pc = "done"
    /\ reqs' = [reqs EXCEPT ![r] = IdleReq]
    /\ UNCHANGED <<csv, shared, nIn, nOut, nSite, nTimes>>

Serve(r, bodies) ==
    \/ Receive(r, bodies)
    \/ Release(r)
    \/ home(r)
    \/ get_available_moods(r)
    \/ recommend_songs_by_mood_validate(r)
    \/ recommend_songs_by_mood_sample(r)
    \/ recommend_songs_by_song_lookup(r)
    \/ recommend_songs_by_song_predict(r)
    \/ recommend_songs_by_song_sample(r)

\* one request at a time
Next == Serve(1, Bodies)

Spec == Init /\ [][Next]_vars

(****************** several requests handled concurrently ******************)
ConcRows == {MkRow(<<"a">>, StrCell(<<"a">>), 0), MkRow(<<"n">>, NaN, 1)}

ConcDatasets == SeqsUpTo(ConcRows, 2)

ConcBodies ==
    { Object(TRUE, JVal("string", <<"a">>)), Object(TRUE, JVal("string", <<"n">>)),
      Object(TRUE, JVal("null", <<>>)) }

ConcModels == BulkModels \cup {[f \in FeatVecs |-> Raised]}

ConcInit == Startup(ConcDatasets \X ConcModels)

\* any worker takes its next step: the handlers interleave at every step
ConcNext == \E r \in Threads : Serve(r, ConcBodies)

ConcSpec == ConcInit /\ [][ConcNext]_vars

(********************* the three normalizers on their own ******************)
Strings == SeqsUpTo(Chars, MaxLen)

ApplySite(site, s) ==
    CASE site = "dataset" -> NormalizeMoodColumn(StrCell(s))
      [] site = "query"   -> NormalizeQuery(s)
      [] site = "label"   -> NormalizeLabel(s)

NormInit ==
    /\ csv = <<>> /\ df = <<>> /\ available_moods = <<>>
    /\ model = [f \in FeatVecs |-> Raised]
    /\ le \in LabelEncoders
    /\ reqs = [r \in Threads |-> IdleReq]
    /\ nIn \in Strings /\ nOut = nIn /\ nSite = "none" /\ nTimes = 0

\* apply one site's normalizer to a string, then again to its own output
Normalize(site) ==
    /\ nSite \in {"none", site}
    /\ nTimes < MaxApply
    /\ nOut' = ApplySite(site, nOut)
    /\ nSite' = site
    /\ nTimes' = nTimes + 1
    /\ UNCHANGED <<csv, shared, reqs, nIn>>

NormNext ==
    \/ Normalize("dataset")
    \/ Normalize("query")
    \/ Normalize("label")

NormSpec == NormInit /\ [][NormNext]_vars

(******************************** the claims *******************************)
Done(r) == reqs[r].pc = "done"

Ok(r) == Done(r) /\ reqs[r].resp.json /\ reqs[r].resp.status = 200

\* the body is absent, no JSON, a falsy JSON value, or an object whose
\* mood / song field is missing or a string
WellTyped(body) ==
    \/ body.t = "object" /\ (body.has => body.fv.t = "string")
    \/ body.t # "object" /\ ~body.truthy

\* the mood / song string of a well-typed body ("" when missing)
QueryOf(body) == IF body.t = "object" /\ body.has THEN body.fv.s ELSE <<>>

Blank(s) == \A i \in 1..Len(s) : s[i] = " "

RECURSIVE DropLeading(_)
DropLeading(s) == IF s # <<>> /\ s[1] = " " THEN DropLeading(Tail(s)) ELSE s

RECURSIVE DropTrailing(_)
DropTrailing(s) ==
    IF s # <<>> /\ s[Len(s)] = " " THEN DropTrailing(SubSeq(s, 1, Len(s) - 1)) ELSE s

Trim(s) == DropTrailing(DropLeading(s))

Fold(s) == [i \in 1..Len(s) |-> LowerChar(s[i])]

\* the canonical mood of the specification: trim, lowercase, then uppercase
\* the first character only
Canonical(s) ==
    LET t == Fold(Trim(s))
    IN  [i \in 1..Len(t) |-> IF i = 1 THEN UpperChar(t[i]) ELSE t[i]]

\* two strings that differ only in letter case and surrounding whitespace
CaseWsEq(a, b) == Fold(Trim(a)) = Fold(Trim(b))

Rows == 1..Len(df)

\* the candidate pool a 200 response was sampled from
PoolOf(rsp) ==
    IF rsp.ep = "mood"
    THEN {i \in Rows : df[i].mood = rsp.mood}
    ELSE {i \in Rows : df[i].mood = rsp.predicted_mood
                       /\ Fold(df[i].song_name) # Fold(rsp.song_input)}

\* C1: a 200 response of recommend_by_mood lists only rows of the dataset
\* whose normalized mood equals the mood of the response, which is one of
\* Available Moods, whatever count was drawn.
C1_MoodOnlyMatching ==
    \A r \in Threads :
        Ok(r) /\ reqs[r].resp.ep = "mood" =>
            /\ InList(reqs[r].resp.mood, available_moods)
            /\ \A i \in reqs[r].resp.rows :
                  /\ i \in 1..Len(csv)
                  /\ Canonical(astype_str(csv[i].mood)) = reqs[r].resp.mood

C1_Witness ==
    \E r \in Threads :
        /\ Ok(r) /\ reqs[r].resp.ep = "mood" /\ reqs[r].resp.rows # {}
        /\ \E j \in Rows : df[j].mood # reqs[r].resp.mood

\* C2: for every record s of the dataset, a 200 response of
\* recommend_by_song(s.song_name) recommends no row whose name equals the
\* query name case-insensitively, and only rows of the predicted mood.
C2_NeverRecommendsQuery ==
    \A r \in Threads :
        (/\ Ok(r) /\ reqs[r].resp.ep = "song" /\ WellTyped(reqs[r].resp.body)
         /\ \E i \in 1..Len(csv) : csv[i].song_name = QueryOf(reqs[r].resp.body))
        => \A j \in reqs[r].resp.rows :
              /\ Fold(df[j].song_name) # Fold(QueryOf(reqs[r].resp.body))
              /\ df[j].mood = reqs[r].resp.predicted_mood

\* C3: in both endpoints a 200 response sampled from a pool of N >= 1 rows
\* holds between min(5, N) and min(8, N) rows, exactly N when N < 5, never
\* more than N and never none; sample() is never asked for more than N rows.
C3_SampleCount ==
    \A r \in Threads :
        /\ Done(r) => reqs[r].resp.error # "ValueError"
        /\ Ok(r) /\ reqs[r].resp.ep \in {"mood", "song"} =>
              LET N == Cardinality(PoolOf(reqs[r].resp))
                  cnt == Cardinality(reqs[r].resp.rows)
              IN  /\ reqs[r].resp.rows \subseteq PoolOf(reqs[r].resp)
                  /\ N >= 1 /\ cnt >= 1 /\ cnt <= N
                  /\ Min(RandLo, N) <= cnt /\ cnt <= Min(RandHi, N)
                  /\ N < RandLo => cnt = N

C3_Witness ==
    \E r \in Threads :
        /\ Ok(r) /\ reqs[r].resp.ep = "song"
        /\ Cardinality(PoolOf(reqs[r].resp)) > RandHi
        /\ Cardinality(reqs[r].resp.rows) = RandHi

\* C4: whatever the body, a request to either POST endpoint ends in a
\* documented JSON response (200, 400, 404, 500); no exception leaves the
\* handler.
C4_AllErrorsCaught ==
    \A r \in Threads :
        Done(r) => reqs[r].resp.json /\ reqs[r].resp.status \in {200, 400, 404, 500}

\* C5: recommend_by_mood rejects bad input before any lookup or sampling: a
\* missing, empty or whitespace-only mood gives 400 "Mood is required.", also
\* when the empty string is one of Available Moods; a mood whose canonical
\* form is not in Available Moods gives 404 "Mood '<mood>' not found."; no
\* songs are returned in either case, and the handler never goes on to filter.
C5_MoodValidation ==
    \A r \in Threads :
        /\ (Done(r) /\ reqs[r].resp.ep = "mood" /\ WellTyped(reqs[r].resp.body)) =>
              LET q == QueryOf(reqs[r].resp.body)
              IN  /\ Blank(q) =>
                        /\ reqs[r].resp.status = 400
                        /\ reqs[r].resp.error = "Mood is required."
                        /\ reqs[r].resp.rows = {}
                  /\ (~Blank(q) /\ ~InList(Canonical(q), available_moods)) =>
                        /\ reqs[r].resp.status = 404
                        /\ reqs[r].resp.error = "Mood '%s' not found."
                        /\ reqs[r].resp.arg = Canonical(q)
                        /\ reqs[r].resp.rows = {}
        /\ (reqs[r].ep = "mood" /\ reqs[r].pc = "sample") =>
              /\ ~Blank(QueryOf(reqs[r].body))
              /\ InList(Canonical(QueryOf(reqs[r].body)), available_moods)

\* a blank mood is refused with 400 although "" is one of Available Moods
C5_Witness ==
    \E r \in Threads :
        /\ Done(r) /\ reqs[r].resp.ep = "mood" /\ reqs[r].resp.status = 400
        /\ reqs[r].resp.body = Object(TRUE, JVal("string", <<" ">>))
        /\ InList(<<>>, available_moods)

\* the classifier (or the decoder) raises for the first row matching the name
ClassifierFault(match) ==
    LET first == CHOOSE i \in match : \A j \in match : i <= j
        p == model[[k \in 1..Len(features) |-> df[first][features[k]]]]
    IN  p.raised \/ p.code + 1 \notin 1..Len(le)

DecodedLabel(match) ==
    LET first == CHOOSE i \in match : \A j \in match : i <= j
    IN  le[model[[k \in 1..Len(features) |-> df[first][features[k]]]].code + 1]

\* C6: recommend_by_song answers with the first failing check, in the order
\* blank song (400), no case-insensitive match (404), classifier fault (500),
\* empty pool (404), else 200; the classifier is not called for a blank or
\* unmatched song and a fault never gives a 200 or a 404.
C6_SongCheckOrder ==
    \A r \in Threads :
        /\ (Done(r) /\ reqs[r].resp.ep = "song" /\ WellTyped(reqs[r].resp.body)) =>
              LET rsp == reqs[r].resp
                  name == Trim(QueryOf(rsp.body))
                  match == {i \in Rows : Fold(df[i].song_name) = Fold(name)}
              IN  IF name = <<>>
                  THEN rsp.status = 400 /\ rsp.error = "Song name is required."
                  ELSE IF match = {}
                  THEN rsp.status = 404 /\ rsp.error = "Song '%s' not found." /\ rsp.arg = name
                  ELSE IF ClassifierFault(match)
                  THEN rsp.status = 500 /\ rsp.json /\ rsp.error = "Prediction failed: %s"
                  ELSE LET mood == Canonical(DecodedLabel(match))
                       IN  IF {i \in Rows : df[i].mood = mood
                                            /\ Fold(df[i].song_name) # Fold(name)} = {}
                           THEN /\ rsp.status = 404 /\ rsp.arg = mood
                                /\ rsp.error = "No recommendations found for mood '%s'."
                           ELSE /\ rsp.status = 200 /\ rsp.rows # {}
                                /\ rsp.predicted_mood = mood /\ rsp.song_input = name
        /\ (reqs[r].ep = "song" /\ reqs[r].pc \in {"predict", "sample"}) =>
              /\ reqs[r].song_input # <<>>
              /\ reqs[r].song_row # {}
              /\ reqs[r].song_row = {i \in Rows : Fold(df[i].song_name) = Fold(reqs[r].song_input)}
        /\ (reqs[r].ep = "song" /\ reqs[r].pc = "sample") => ~ClassifierFault(reqs[r].song_row)

\* the decoder raises on a label it has never seen and the answer is 500
C6_Witness ==
    \E r \in Threads :
        /\ Done(r) /\ reqs[r].resp.ep = "song" /\ reqs[r].resp.status = 500
        /\ reqs[r].resp.error = "Prediction failed: %s"
        /\ LET match == {i \in Rows : Fold(df[i].song_name)
                                          = Fold(Trim(QueryOf(reqs[r].resp.body)))}
               first == CHOOSE i \in match : \A j \in match : i <= j
               p == model[[k \in 1..Len(features) |-> df[first][features[k]]]]
           IN  match # {} /\ ~p.raised /\ p.code + 1 \notin 1..Len(le)

\* the dataset column, the mood query and the decoded label are all mapped
\* to the canonical form
SitesAgree ==
    /\ \A i \in Rows : df[i].mood = Canonical(astype_str(csv[i].mood))
    /\ \A r \in Threads :
          /\ (reqs[r].ep = "mood" /\ reqs[r].pc = "sample") =>
                reqs[r].mood_input = Canonical(QueryOf(reqs[r].body))
          /\ (reqs[r].ep = "song" /\ reqs[r].pc = "sample") =>
                reqs[r].predicted_mood = Canonical(DecodedLabel(reqs[r].song_row))

\* a mood query that differs from the mood string of a row only by case and
\* surrounding whitespace is answered 200 with the canonical mood
QueryFound(r, i) ==
    /\ reqs[r].resp.status = 200
    /\ reqs[r].resp.mood = Canonical(csv[i].mood.s)
    /\ i \in PoolOf(reqs[r].resp)

Ascending(list) == \A i \in 1..Len(list) : \A j \in 1..Len(list) : i < j => StrLess(list[i], list[j])

\* what a request answers when it is the only one the process ever handles
SoloOutcomes(ep, body) ==
    LET frame == Preprocess(csv)
        moods == ComputeAvailableMoods(frame)
    IN  CASE ep = "home" -> {BaseResp("home", body)}
          [] ep = "moods" -> {[BaseResp("moods", body) EXCEPT !.moods = moods]}
          [] ep = "mood" ->
                LET p == mood_parse(moods, body)
                IN  IF p.done THEN {p.resp} ELSE mood_sample(frame, body, p.mood_input)
          [] ep = "song" ->
                LET p == song_parse(frame, body)
                IN  IF p.done THEN {p.resp}
                    ELSE LET q == song_predict(frame, model, le, body, p.song_row)
                         IN  IF q.done THEN {q.resp}
                             ELSE song_sample(frame, body, p.song_input, q.predicted_mood)

Isolated ==
    /\ df = Preprocess(csv)
    /\ \A i \in 1..Len(available_moods) :
          \E j \in Rows : Canonical(astype_str(csv[j].mood)) = available_moods[i]
    /\ \A j \in Rows : InList(Canonical(astype_str(csv[j].mood)), available_moods)
    /\ Ascending(available_moods)
    /\ \A r \in Threads :
          Done(r) =>
              /\ reqs[r].resp \in SoloOutcomes(reqs[r].resp.ep, reqs[r].resp.body)
              /\ reqs[r].resp.ep = "moods" => reqs[r].resp.moods = available_moods

C10_EmptyPoolUnreachable ==
    /\ \A j \in Rows : InList(Canonical(astype_str(csv[j].mood)), available_moods)
    /\ \A i \in 1..Len(available_moods) :
          /\ \E j \in Rows : Canonical(astype_str(csv[j].mood)) = available_moods[i]
          /\ \A k \in 1..Len(available_moods) : k # i => available_moods[k] # available_moods[i]
    /\ \A r \in Threads :
          /\ Done(r) => reqs[r].resp.error # "No songs found for mood '%s'."
          /\ (reqs[r].ep = "mood" /\ reqs[r].pc = "sample") =>
                \E j \in Rows : df[j].mood = reqs[r].mood_input

\* the query "NAN" passes the check and matches a row whose mood is missing
C10_Witness ==
    \E r \in Threads : \E j \in Rows :
        /\ reqs[r].ep = "mood" /\ reqs[r].pc = "sample"
        /\ reqs[r].mood_input = <<"N", "a", "n">>
        /\ csv[j].mood.isna

====
